---- MODULE Spec2Model ----
(***************************************************************************)
(* Model of src/src/drone.js: the DroneSimulation React component.         *)
(*                                                                         *)
(* Lengths are integers in units of 0.005 m, in which the constants of     *)
(* the source are exact: droneSpeed 0.05 = 10, boxSize / 2 = 0.635 = 127,  *)
(* maxPos = 5 - 0.635 = 873.  A position is a tuple <<x, y, z>>.           *)
(* distanceTo is the square root of an integer; the code only compares     *)
(* distances, so the model compares the squares (the square root is        *)
(* strictly monotone).                                                     *)
(***************************************************************************)
EXTENDS Integers, Sequences, FiniteSets, TLC

VARIABLES
  root,            \* "mounted" | "unmounted" | "crashed": the React root
  isGameStarted,   \* useState, line 10 (committed value)
  gameOver,        \* useState, line 9
  totalBoxes,      \* useState, line 8
  collectedBoxes,  \* useState, line 7: sequence of box references or Null
  updateQueue,     \* state updates queued by setState and not yet rendered
  current,         \* id of the closure of the latest run of the effect body
  closures,        \* closure id -> the variables of one run of the effect
  rafQueue,        \* requestAnimationFrame callbacks, in registration order
  act,             \* the operation that produced this state
  call             \* SpecFind only: arguments and result of findClosestBox

vars == <<root, isGameStarted, gameOver, totalBoxes, collectedBoxes,
          updateQueue, current, closures, rafQueue, act, call>>

----------------------------------------------------------------------------
(* Bounds of the model *)

\* boxes created per session (the source creates 100, line 93)
NumBoxes == 2
\* SpecWall: boxes of a session, all created at one place next to a wall
WallBoxes == 14
\* SpecFind: longest box collection handed to findClosestBox
MaxLen == 3

----------------------------------------------------------------------------
(* Constants of the source, in units of 0.005 m *)

roomSize == 2000
boxSize == 254
droneSpeed == 10
maxPos == (roomSize \div 2) - (boxSize \div 2)

\* the value of `null` (no target, no box)
Null == 0
\* the value of `Infinity` for a squared distance
Infinity == -1

Origin == <<0, 0, 0>>

----------------------------------------------------------------------------
(* THREE.Vector3 *)

subVectors(a, b) == <<a[1] - b[1], a[2] - b[2], a[3] - b[3]>>

lengthSq(v) == v[1] * v[1] + v[2] * v[2] + v[3] * v[3]

distanceToSquared(a, b) == lengthSq(subVectors(a, b))

Abs(n) == IF n < 0 THEN -n ELSE n

Max(a, b) == IF a < b THEN b ELSE a

\* Vector3.length(): the integer part of the square root of lengthSq(v),
\* which lies between the largest coordinate and the sum of the three; it
\* is exact on the vectors of the model, which lie on an axis
length(v) ==
  CHOOSE r \in Max(Abs(v[1]), Max(Abs(v[2]), Abs(v[3])))
                ..(Abs(v[1]) + Abs(v[2]) + Abs(v[3])) :
    r * r <= lengthSq(v) /\ lengthSq(v) < (r + 1) * (r + 1)

\* a slip: normalize() missing, the whole difference is scaled
unscaledDirection(v, s) == <<v[1] * s, v[2] * s, v[3] * s>>

\* a slip: the zero vector normalised to the x axis
scaledDirectionDefaultAxis(v, s) ==
  LET DivideBy(len) ==
        <<(v[1] * s) \div len, (v[2] * s) \div len, (v[3] * s) \div len>>
  IN IF lengthSq(v) = 0 THEN <<s, 0, 0>> ELSE DivideBy(length(v))

\* Vector3.normalize().multiplyScalar(s): normalize divides by
\* (length() || 1), so the zero vector stays the zero vector
scaledDirection(v, s) ==
  LET DivideBy(len) ==
        <<(v[1] * s) \div len, (v[2] * s) \div len, (v[3] * s) \div len>>
  IN IF lengthSq(v) = 0 THEN DivideBy(1) ELSE DivideBy(length(v))

add(a, b) == <<a[1] + b[1], a[2] + b[2], a[3] + b[3]>>

\* a slip: > for <, which keeps the farthest box
Farther(d1, d2) == d2 = Infinity \/ d1 > d2

\* a slip: <= for <, which keeps the last box of a tie
CloserOrEqual(d1, d2) == d2 = Infinity \/ d1 <= d2

\* line 192: d1 < d2 on squared distances, d2 possibly Infinity
Closer(d1, d2) == d2 = Infinity \/ d1 < d2

----------------------------------------------------------------------------
(* findClosestBox, lines 184-199.  boxes is a sequence of records          *)
(* [pos, collected]; the result is the index of the returned box (the      *)
(* reference to it) or Null.                                               *)

RECURSIVE ScanBoxes(_, _, _, _, _)
ScanBoxes(position, boxes, i, closestBox, closestDistance) ==
  IF i > Len(boxes) THEN closestBox
  ELSE IF boxes[i].collected
       THEN ScanBoxes(position, boxes, i + 1, closestBox, closestDistance)
       ELSE LET distance == distanceToSquared(position, boxes[i].pos)
            IN IF Closer(distance, closestDistance)
               THEN ScanBoxes(position, boxes, i + 1, i, distance)
               ELSE ScanBoxes(position, boxes, i + 1, closestBox, closestDistance)

findClosestBox(position, boxes) == ScanBoxes(position, boxes, 1, Null, Infinity)

----------------------------------------------------------------------------
(* The world of one run of the effect body, lines 12-230                   *)

\* x coordinates the boxes are placed at (lines 105-111 draw each coordinate
\* from [-maxPos, maxPos)); the model's boxes lie on the x axis
BoxXs == {-maxPos, 3, 10, 140}

Layouts == [1..NumBoxes -> BoxXs]

\* lines 93-121: boxesData after the creation loop
NewBoxes(layout) ==
  [i \in DOMAIN layout |-> [pos |-> <<layout[i], 0, 0>>, collected |-> FALSE]]

\* lines 57, 129-134: the closure's variables before the first animate()
NewClosure(layout) ==
  [drone         |-> Origin,
   boxesData     |-> NewBoxes(layout),
   currentTarget |-> findClosestBox(Origin, NewBoxes(layout)),
   isRunning     |-> TRUE]

\* a slip: a radius below half a step, which the drone can hop over
ReachedWithinQuarterStep(position, target) ==
  distanceToSquared(position, target) < (droneSpeed \div 4) * (droneSpeed \div 4)

\* a slip: the test of line 158 dropped, the target is collected at once
ReachedAlways(position, target) == TRUE

\* a slip: the whole edge of the box for half of it
ReachedWholeEdge(position, target) ==
  distanceToSquared(position, target) < boxSize * boxSize

\* line 158: distance < boxSize / 2
Reached(position, target) ==
  distanceToSquared(position, target) < (boxSize \div 2) * (boxSize \div 2)

\* a slip: the operands of subVectors swapped, the drone backs away
MovedAway(position, target) ==
  add(position, scaledDirection(subVectors(position, target), droneSpeed))

\* lines 144-149: the drone position after the move toward target
Moved(position, target) ==
  add(position, scaledDirection(subVectors(target, position), droneSpeed))

\* a slip: line 138 missing, the tick never returns early
StoppedNever(cl) == FALSE

\* line 138: the tick returns at once when the flag is cleared
Stopped(cl) == ~cl.isRunning

\* line 143: if (currentTarget && !currentTarget.collected)
HasTarget(cl) ==
  cl.currentTarget # Null /\ ~cl.boxesData[cl.currentTarget].collected

\* a slip: the test of line 171 inverted, game over on any other collection
animateOverWhileTargets(cl) ==
  IF Stopped(cl)
  THEN [cl |-> cl, raf |-> FALSE, hit |-> Null, over |-> FALSE]
  ELSE IF ~HasTarget(cl)
  THEN [cl |-> cl, raf |-> TRUE, hit |-> Null, over |-> FALSE]
  ELSE
    LET t     == cl.currentTarget
        p     == Moved(cl.drone, cl.boxesData[t].pos)
    IN IF ~Reached(p, cl.boxesData[t].pos)
       THEN [cl |-> [cl EXCEPT !.drone = p],
             raf |-> TRUE, hit |-> Null, over |-> FALSE]
       ELSE
         LET boxes == [cl.boxesData EXCEPT ![t].collected = TRUE]
             next  == findClosestBox(p, boxes)
         IN [cl |-> [drone         |-> p,
                     boxesData     |-> boxes,
                     currentTarget |-> next,
                     isRunning     |-> next = Null],
             raf |-> TRUE, hit |-> t, over |-> next # Null]

\* a slip: every box within reach is collected, not the target alone
animateCollectsInReach(cl) ==
  IF Stopped(cl)
  THEN [cl |-> cl, raf |-> FALSE, hit |-> Null, over |-> FALSE]
  ELSE IF ~HasTarget(cl)
  THEN [cl |-> cl, raf |-> TRUE, hit |-> Null, over |-> FALSE]
  ELSE
    LET t     == cl.currentTarget
        p     == Moved(cl.drone, cl.boxesData[t].pos)
    IN IF ~Reached(p, cl.boxesData[t].pos)
       THEN [cl |-> [cl EXCEPT !.drone = p],
             raf |-> TRUE, hit |-> Null, over |-> FALSE]
       ELSE
         LET boxes == [i \in DOMAIN cl.boxesData |->
                         IF Reached(p, cl.boxesData[i].pos)
                         THEN [cl.boxesData[i] EXCEPT !.collected = TRUE]
                         ELSE cl.boxesData[i]]
             next  == findClosestBox(p, boxes)
         IN [cl |-> [drone         |-> p,
                     boxesData     |-> boxes,
                     currentTarget |-> next,
                     isRunning     |-> next # Null],
             raf |-> TRUE, hit |-> t, over |-> next = Null]

\* a slip: line 172 missing, the flag stays set at game over
animateKeepsRunning(cl) ==
  IF Stopped(cl)
  THEN [cl |-> cl, raf |-> FALSE, hit |-> Null, over |-> FALSE]
  ELSE IF ~HasTarget(cl)
  THEN [cl |-> cl, raf |-> TRUE, hit |-> Null, over |-> FALSE]
  ELSE
    LET t     == cl.currentTarget
        p     == Moved(cl.drone, cl.boxesData[t].pos)
    IN IF ~Reached(p, cl.boxesData[t].pos)
       THEN [cl |-> [cl EXCEPT !.drone = p],
             raf |-> TRUE, hit |-> Null, over |-> FALSE]
       ELSE
         LET boxes == [cl.boxesData EXCEPT ![t].collected = TRUE]
             next  == findClosestBox(p, boxes)
         IN [cl |-> [drone         |-> p,
                     boxesData     |-> boxes,
                     currentTarget |-> next,
                     isRunning     |-> TRUE],
             raf |-> TRUE, hit |-> t, over |-> next = Null]

\* lines 137-181: one call of animate on closure record cl.  The result is
\* the closure afterwards, whether requestAnimationFrame was called (raf),
\* the box collected (hit, or Null) and whether game over was raised (over).
animate(cl) ==
  IF Stopped(cl)
  THEN [cl |-> cl, raf |-> FALSE, hit |-> Null, over |-> FALSE]
  ELSE IF ~HasTarget(cl)
  THEN [cl |-> cl, raf |-> TRUE, hit |-> Null, over |-> FALSE]
  ELSE
    LET t     == cl.currentTarget
        p     == Moved(cl.drone, cl.boxesData[t].pos)
    IN IF ~Reached(p, cl.boxesData[t].pos)
       THEN [cl |-> [cl EXCEPT !.drone = p],
             raf |-> TRUE, hit |-> Null, over |-> FALSE]
       ELSE
         LET boxes == [cl.boxesData EXCEPT ![t].collected = TRUE]
             next  == findClosestBox(p, boxes)
         IN [cl |-> [drone         |-> p,
                     boxesData     |-> boxes,
                     currentTarget |-> next,
                     isRunning     |-> next # Null],
             raf |-> TRUE, hit |-> t, over |-> next = Null]

----------------------------------------------------------------------------
(* React state updates.  An update is queued by a setState call and        *)
(* applied by the next render.  The updater of line 164 reads the closure  *)
(* variable currentTarget when it runs: at the call when React computes    *)
(* the state eagerly (possible only when no update is pending), otherwise  *)
(* in the render.                                                          *)

\* a reference to box id of closure c; NullRef is a null entry
Ref(c, id) == [cl |-> c, id |-> id]
NullRef == Ref(0, Null)
TargetRef(c, cl) ==
  IF cl.currentTarget = Null THEN NullRef ELSE Ref(c, cl.currentTarget)

Update(op, c, eager, box) == [op |-> op, cl |-> c, eager |-> eager, box |-> box]
Plain(op) == Update(op, 0, TRUE, NullRef)

\* a slip: the remaining count is not decremented on a collection
TickUpdatesNoDecrement(c, r, eager) ==
  IF r.hit = Null THEN <<>>
  ELSE <<Update("append", c, eager, IF eager THEN Ref(c, r.hit) ELSE NullRef)>>
       \o (IF r.over THEN <<Plain("gameOverTrue"), Plain("startedFalse")>>
           ELSE <<>>)

\* a slip: line 164 missing, nothing is appended on a collection
TickUpdatesNoAppend(c, r, eager) ==
  IF r.hit = Null THEN <<>>
  ELSE <<Plain("decrement")>>
       \o (IF r.over THEN <<Plain("gameOverTrue"), Plain("startedFalse")>>
           ELSE <<>>)

\* a slip: line 165 outside the test of line 158, a decrement every tick
TickUpdatesEveryTick(c, r, eager) ==
  IF r.hit = Null THEN <<Plain("decrement")>>
  ELSE <<Update("append", c, eager, IF eager THEN Ref(c, r.hit) ELSE NullRef),
         Plain("decrement")>>
       \o (IF r.over THEN <<Plain("gameOverTrue"), Plain("startedFalse")>>
           ELSE <<>>)

\* lines 164-165 and 171-175: the setState calls of a tick of closure c
\* that collected box hit, r being the result of animate
TickUpdates(c, r, eager) ==
  IF r.hit = Null THEN <<>>
  ELSE <<Update("append", c, eager, IF eager THEN Ref(c, r.hit) ELSE NullRef),
         Plain("decrement")>>
       \o (IF r.over THEN <<Plain("gameOverTrue"), Plain("startedFalse")>>
           ELSE <<>>)

\* a slip: line 246 missing, the collected list is not emptied
StartUpdatesKeepCollected ==
  <<Plain("resetTotal"), Plain("gameOverFalse"), Plain("startedTrue")>>

\* lines 246-249: the setState calls of the Start Game button
StartUpdates ==
  <<Plain("resetCollected"), Plain("resetTotal"),
    Plain("gameOverFalse"), Plain("startedTrue")>>

\* the committed state as a record
UiState ==
  [collectedBoxes |-> collectedBoxes, totalBoxes |-> totalBoxes,
   gameOver |-> gameOver, isGameStarted |-> isGameStarted]

\* one update applied to ui; cls gives the closures at render time
ApplyUpdate(ui, u, cls) ==
  CASE u.op = "append" ->
         [ui EXCEPT !.collectedBoxes =
            Append(@, IF u.eager THEN u.box ELSE TargetRef(u.cl, cls[u.cl]))]
    [] u.op = "decrement"      -> [ui EXCEPT !.totalBoxes = @ - 1]
    [] u.op = "resetCollected" -> [ui EXCEPT !.collectedBoxes = <<>>]
    [] u.op = "resetTotal"     -> [ui EXCEPT !.totalBoxes = NumBoxes]
    [] u.op = "gameOverTrue"   -> [ui EXCEPT !.gameOver = TRUE]
    [] u.op = "gameOverFalse"  -> [ui EXCEPT !.gameOver = FALSE]
    [] u.op = "startedTrue"    -> [ui EXCEPT !.isGameStarted = TRUE]
    [] u.op = "startedFalse"   -> [ui EXCEPT !.isGameStarted = FALSE]

RECURSIVE ApplyAll(_, _, _)
ApplyAll(ui, q, cls) ==
  IF q = <<>> THEN ui ELSE ApplyAll(ApplyUpdate(ui, Head(q), cls), Tail(q), cls)

\* lines 233-236: the render body reads box.color of every entry and
\* throws on a null entry
RenderThrows(ui) ==
  \E i \in 1..Len(ui.collectedBoxes) : ui.collectedBoxes[i] = NullRef

\* lines 224-229: the cleanup of the effect of closure c
Cleanup(cls, c) ==
  IF c \in DOMAIN cls THEN [cls EXCEPT ![c].isRunning = FALSE] ELSE cls

\* React may compute an update eagerly only when none is pending
EagerChoices(q) == IF q = <<>> THEN BOOLEAN ELSE {FALSE}

\* setState on a root that is gone queues nothing
Enqueue(q, us) == IF root = "mounted" THEN q \o us ELSE q

\* The closures something can still reach: the latest one, those with a
\* callback in rafQueue, those an update in the queue reads.
Reachable(cls, raf, q, latest) ==
  {c \in DOMAIN cls :
     \/ c = latest
     \/ \E i \in 1..Len(raf) : raf[i] = c
     \/ \E i \in 1..Len(q) : q[i].op = "append" /\ q[i].cl = c}

Collect(cls, raf, q, latest) ==
  [c \in Reachable(cls, raf, q, latest) |-> cls[c]]

\* the id of a new closure: the smallest one not in use
FreshId(cls) == CHOOSE c \in 1..(Cardinality(DOMAIN cls) + 1) :
                  c \notin DOMAIN cls /\ \A d \in 1..(c - 1) : d \in DOMAIN cls

----------------------------------------------------------------------------
(* findClosestBox on its own: the arguments are drawn from small sets of   *)
(* points off the x axis too, with any combination of collected flags.     *)

FindPositions == {<<0, 0, 0>>, <<100, 0, 0>>, <<50, 50, 0>>, <<-maxPos, maxPos, -maxPos>>}

FindPoints == {<<0, 0, 0>>, <<100, 0, 0>>, <<0, 100, 0>>, <<0, 0, -100>>,
               <<100, 100, 0>>, <<-200, 0, 0>>}

FindBox == [pos : FindPoints, collected : BOOLEAN]

FindBoxes == UNION {[1..n -> FindBox] : n \in 0..MaxLen}

NoCall == [position |-> Origin, boxes |-> <<>>, result |-> Null, done |-> FALSE]

----------------------------------------------------------------------------
(* Operations *)

Init ==
  /\ root = "mounted"
  /\ isGameStarted = FALSE
  /\ gameOver = FALSE
  /\ totalBoxes = NumBoxes
  /\ collectedBoxes = <<>>
  /\ updateQueue = <<>>
  /\ current = 0
  /\ closures = <<>>
  /\ rafQueue = <<>>
  /\ act = [name |-> "Init", cl |-> 0]
  /\ call = NoCall

Commit(ui) ==
  /\ collectedBoxes' = ui.collectedBoxes
  /\ totalBoxes' = ui.totalBoxes
  /\ gameOver' = ui.gameOver
  /\ isGameStarted' = ui.isGameStarted

\* Start Game onClick, lines 245-250, with the render React flushes at the
\* end of the event and the effect body it runs (lines 12-221), which ends
\* with the first call of animate (line 221).
Start(layouts) ==
  /\ root = "mounted"
  /\ ~isGameStarted
  /\ \E layout \in layouts, eager \in BOOLEAN :
       \E c \in {FreshId(Collect(closures, rafQueue, updateQueue, 0))},
          r \in {animate(NewClosure(layout))} :
         LET q   == TickUpdates(c, r, eager)
             raf == rafQueue \o <<c>>
             cls == [d \in DOMAIN closures \cup {c} |->
                       IF d = c THEN r.cl ELSE closures[d]]
         IN /\ Commit(ApplyAll(UiState, updateQueue \o StartUpdates, closures))
            /\ current' = c
            /\ updateQueue' = q
            /\ rafQueue' = raf
            /\ closures' = Collect(cls, raf, q, c)
            /\ act' = [name |-> "StartGame", cl |-> c]
  /\ UNCHANGED <<root, call>>

\* the effect creates NumBoxes boxes (line 93)
StartGame == Start(Layouts)

\* The browser calls the callback registered first: animate, lines 137-181
animateCallback ==
  /\ rafQueue # <<>>
  /\ \E c \in {Head(rafQueue)}, eager \in EagerChoices(updateQueue) :
       \E r \in {animate(closures[c])} :
         LET q   == Enqueue(updateQueue, TickUpdates(c, r, eager))
             raf == Tail(rafQueue) \o (IF r.raf THEN <<c>> ELSE <<>>)
         IN /\ updateQueue' = q
            /\ rafQueue' = raf
            /\ closures' = Collect([closures EXCEPT ![c] = r.cl], raf, q, current)
            /\ act' = [name |-> "Tick", cl |-> c]
  /\ UNCHANGED <<root, isGameStarted, gameOver, totalBoxes, collectedBoxes,
                 current>>

\* A requestAnimationFrame callback
Tick == animateCallback /\ UNCHANGED call

\* React renders the component with the queued updates applied, commits,
\* and runs the effect of line 12 when isGameStarted changed: here only its
\* cleanup can be due (lines 224-229), the body returns at line 13.  A
\* render that throws unmounts the root, which runs the cleanup too.
Render ==
  /\ root = "mounted"
  /\ updateQueue # <<>>
  /\ LET ui == ApplyAll(UiState, updateQueue, closures)
     IN IF RenderThrows(ui)
        THEN /\ root' = "crashed"
             /\ closures' = Collect(IF isGameStarted THEN Cleanup(closures, current)
                                    ELSE closures, rafQueue, <<>>, current)
             /\ UNCHANGED <<isGameStarted, gameOver, totalBoxes, collectedBoxes>>
        ELSE /\ root' = root
             /\ Commit(ui)
             /\ closures' = Collect(IF isGameStarted /\ ~ui.isGameStarted
                                    THEN Cleanup(closures, current)
                                    ELSE closures, rafQueue, <<>>, current)
  /\ updateQueue' = <<>>
  /\ act' = [name |-> "Render", cl |-> 0]
  /\ UNCHANGED <<current, rafQueue, call>>

\* The parent removes the component: the cleanup of lines 224-229 runs
Unmount ==
  /\ root = "mounted"
  /\ root' = "unmounted"
  /\ closures' = Collect(IF isGameStarted THEN Cleanup(closures, current)
                         ELSE closures, rafQueue, <<>>, current)
  /\ updateQueue' = <<>>
  /\ act' = [name |-> "Unmount", cl |-> 0]
  /\ UNCHANGED <<isGameStarted, gameOver, totalBoxes, collectedBoxes,
                 current, rafQueue, call>>

\* Back to Start onClick, line 281, with the render that follows and the
\* cleanup it runs.  The button is part of the game-over panel (lines
\* 275-286), which is rendered only while isGameStarted and gameOver both
\* hold; no state of Spec commits the two together (PanelNeverShown), so
\* the action is not a disjunct of Next.
BackToStart ==
  /\ root = "mounted"
  /\ isGameStarted
  /\ gameOver
  /\ Commit(ApplyAll(UiState, updateQueue \o <<Plain("startedFalse")>>, closures))
  /\ closures' = Collect(Cleanup(closures, current), rafQueue, <<>>, current)
  /\ updateQueue' = <<>>
  /\ act' = [name |-> "BackToStart", cl |-> 0]
  /\ UNCHANGED <<root, current, rafQueue, call>>

\* SpecFind: the game is not started, findClosestBox is called once
InitFind ==
  /\ root = "mounted"
  /\ isGameStarted = FALSE
  /\ gameOver = FALSE
  /\ totalBoxes = NumBoxes
  /\ collectedBoxes = <<>>
  /\ updateQueue = <<>>
  /\ current = 0
  /\ closures = <<>>
  /\ rafQueue = <<>>
  /\ act = [name |-> "Init", cl |-> 0]
  /\ \E position \in FindPositions, boxes \in FindBoxes :
       call = [position |-> position, boxes |-> boxes,
               result |-> Null, done |-> FALSE]

Find ==
  /\ ~call.done
  /\ call' = [call EXCEPT !.result = findClosestBox(call.position, call.boxes),
                          !.done = TRUE]
  /\ UNCHANGED <<root, isGameStarted, gameOver, totalBoxes, collectedBoxes,
                 updateQueue, current, closures, rafQueue, act>>

NextFind == Find

SpecFind == InitFind /\ [][NextFind]_vars

Next == StartGame \/ Tick \/ Render \/ Unmount

Spec == Init /\ [][Next]_vars

\* The view is never torn down, and the browser calls every callback it
\* was handed (one animation frame follows another)
NextLive == StartGame \/ Tick \/ Render

\* Tick is enabled exactly when a callback is registered
TickEnabled == rafQueue # <<>>

\* Weak fairness of Tick, with the enabling condition written out: a
\* callback that stays registered is called
FairTick == []<>(~TickEnabled) \/ []<><<Tick>>_vars

LiveSpec == Init /\ [][NextLive]_vars /\ FairTick

----------------------------------------------------------------------------
(* The scenario of one remaining box straight ahead: the drone is at the   *)
(* origin, every box but the last is collected, and the last one lies on   *)
(* an axis at the distance of the scenario, 10 m.  call counts the ticks.  *)

ScenarioPoints == {<<2000, 0, 0>>, <<-2000, 0, 0>>, <<0, 2000, 0>>,
                   <<0, -2000, 0>>, <<0, 0, 2000>>, <<0, 0, -2000>>}

ScenarioBoxes(layout, point) ==
  [i \in 1..NumBoxes |->
     IF i = NumBoxes THEN [pos |-> point, collected |-> FALSE]
     ELSE [pos |-> <<layout[i], 0, 0>>, collected |-> TRUE]]

ScenarioClosure(boxes) ==
  [drone         |-> Origin,
   boxesData     |-> boxes,
   currentTarget |-> findClosestBox(Origin, boxes),
   isRunning     |-> TRUE]

InitScenario ==
  /\ root = "mounted"
  /\ isGameStarted = TRUE
  /\ gameOver = FALSE
  /\ totalBoxes = 1
  /\ collectedBoxes = [i \in 1..(NumBoxes - 1) |-> Ref(1, i)]
  /\ updateQueue = <<>>
  /\ current = 1
  /\ \E layout \in Layouts, point \in ScenarioPoints :
       closures = <<ScenarioClosure(ScenarioBoxes(layout, point))>>
  /\ rafQueue = <<1>>
  /\ act = [name |-> "Init", cl |-> 0]
  /\ call = [ticks |-> 0]

ScenarioTick == animateCallback /\ call' = [ticks |-> call.ticks + 1]

NextScenario == ScenarioTick \/ Render

SpecScenario == InitScenario /\ [][NextScenario]_vars

----------------------------------------------------------------------------
(* The component with a creation loop that may create no box at all: the   *)
(* initial target selection of line 131 then finds an empty collection.    *)

StartEmpty == Start({<<>>})

NextEmpty == StartGame \/ StartEmpty \/ Tick \/ Render \/ Unmount

SpecEmpty == Init /\ [][NextEmpty]_vars

----------------------------------------------------------------------------
(* A session whose boxes were all created at the same place, at the edge   *)
(* of the region boxes are placed in (lines 106-111 draw each coordinate   *)
(* from [-maxPos, maxPos)).  The state is the one the effect body has      *)
(* built when it calls animate for the first time (line 221).              *)

WallXs == {maxPos - 1, -maxPos}

WallLayouts == {[i \in 1..WallBoxes |-> x] : x \in WallXs}

InitWall ==
  /\ root = "mounted"
  /\ isGameStarted = TRUE
  /\ gameOver = FALSE
  /\ totalBoxes = WallBoxes
  /\ collectedBoxes = <<>>
  /\ updateQueue = <<>>
  /\ current = 1
  /\ \E layout \in WallLayouts : closures = <<NewClosure(layout)>>
  /\ rafQueue = <<1>>
  /\ act = [name |-> "Init", cl |-> 0]
  /\ call = NoCall

\* React renders the updates of a tick before the browser runs the next
\* animation frame, as it does when the page is not busy
FrameTick == updateQueue = <<>> /\ Tick

NextWall == FrameTick \/ Render

SpecWall == InitWall /\ [][NextWall]_vars

----------------------------------------------------------------------------
(* Claims *)

Uncollected(boxes) == {i \in 1..Len(boxes) : ~boxes[i].collected}

\* the uncollected boxes at minimum distance from position
Nearest(position, boxes) ==
  {i \in Uncollected(boxes) :
     \A j \in Uncollected(boxes) :
       distanceToSquared(position, boxes[i].pos)
         <= distanceToSquared(position, boxes[j].pos)}

\* C1: findClosestBox returns the first box in scan order among the
\* uncollected boxes at minimum distance from the position, and null exactly
\* when there is no uncollected box.
C1_FirstNearest ==
  call.done =>
    IF Uncollected(call.boxes) = {}
    THEN call.result = Null
    ELSE /\ call.result \in Nearest(call.position, call.boxes)
         /\ \A j \in Nearest(call.position, call.boxes) : call.result <= j

\* C1 witness: a call on three boxes where a collected box is strictly
\* closer than the result and the result is the first of two nearest ones
C1_Witness ==
  /\ call.done
  /\ Len(call.boxes) = 3
  /\ call.boxes[1].collected
  /\ distanceToSquared(call.position, call.boxes[1].pos)
       < distanceToSquared(call.position, call.boxes[2].pos)
  /\ Nearest(call.position, call.boxes) = {2, 3}
  /\ call.boxes[2].pos # call.boxes[3].pos
  /\ call.result = 2

\* C2: in every reachable state the current target of a closure is an
\* uncollected box at minimum distance from the drone's position, and it is
\* null exactly when no box is uncollected.
C2_TargetIsNearest ==
  \A c \in DOMAIN closures :
    IF Uncollected(closures[c].boxesData) = {}
    THEN closures[c].currentTarget = Null
    ELSE closures[c].currentTarget
           \in Nearest(closures[c].drone, closures[c].boxesData)

\* C2 witness: a running session after a tick that collected nothing, the
\* drone away from the origin, with an uncollected box other than the target
\* at another place
C2_Witness ==
  /\ act.name = "Tick"
  /\ updateQueue = <<>>
  /\ closures[current].isRunning
  /\ closures[current].drone # Origin
  /\ \E i \in Uncollected(closures[current].boxesData) :
       /\ i # closures[current].currentTarget
       /\ closures[current].boxesData[i].pos
            # closures[current].boxesData[closures[current].currentTarget].pos

\* C3: in every state the remaining count plus the length of the collected
\* list is the number of boxes a session creates.
C3_CountsAddUp == totalBoxes + Len(collectedBoxes) = NumBoxes

\* C3 witness: a render has committed the updates of a collection while
\* the session goes on
C3_Witness ==
  /\ act.name = "Render"
  /\ root = "mounted"
  /\ isGameStarted
  /\ Len(collectedBoxes) = 1
  /\ totalBoxes = NumBoxes - 1
  /\ closures[current].isRunning

\* the closure with id c goes on from this state to the next one (an id
\* is used again once nothing reaches its closure)
Continues(c) ==
  /\ c \in DOMAIN closures
  /\ c \in DOMAIN closures'
  /\ ~(act'.name = "StartGame" /\ act'.cl = c)

\* a box of closure c is collected by this step
Collects(c, i) ==
  /\ Continues(c)
  /\ ~closures[c].boxesData[i].collected
  /\ closures'[c].boxesData[i].collected

\* C4: a collected flag never goes back to false, a collected box is never
\* the result of a later target selection, and no box is appended twice to
\* the collected list.
C4_CollectedOnce ==
  [][/\ \A c \in DOMAIN closures : Continues(c) =>
          \A i \in 1..NumBoxes :
            closures[c].boxesData[i].collected =>
              /\ closures'[c].boxesData[i].collected
              /\ closures'[c].currentTarget # i
     /\ \A i, j \in 1..Len(collectedBoxes') :
          collectedBoxes'[i] = collectedBoxes'[j] => i = j]_vars

\* The part of C4 about the flags alone: a collected flag never goes back
\* to false and a collected box is never selected again.
FlagsOneWay ==
  [][\A c \in DOMAIN closures : Continues(c) =>
       \A i \in 1..NumBoxes :
         closures[c].boxesData[i].collected =>
           /\ closures'[c].boxesData[i].collected
           /\ closures'[c].currentTarget # i]_vars

\* ids of the closures alive at one time: the latest and at most one older
\* closure whose last callback has not run yet
ClosureIds == {1, 2}

RunningC(c) == c \in DOMAIN closures /\ closures[c].isRunning

\* closure c raised game over: every box collected, no target, flag cleared
OverIn(cls, c) ==
  /\ c \in DOMAIN cls
  /\ ~cls[c].isRunning
  /\ Uncollected(cls[c].boxesData) = {}
  /\ cls[c].currentTarget = Null

OverC(c) == OverIn(closures, c)

HasCallback(c) == \E i \in 1..Len(rafQueue) : rafQueue[i] = c

\* C5: with the callbacks called fairly, every started session collects
\* all its boxes and raises game over, and then its tick loop stops.
C5_SessionFinishes ==
  /\ [](DOMAIN closures \subseteq ClosureIds)
  /\ \A c \in ClosureIds :
       /\ RunningC(c) ~> OverC(c)
       /\ OverC(c) ~> ~HasCallback(c)

\* C5 witness: a session that began with the farthest boxes has finished
C5_Witness ==
  /\ OverC(current)
  /\ ~HasCallback(current)
  /\ \A i \in 1..NumBoxes : closures[current].boxesData[i].pos = <<-maxPos, 0, 0>>

\* the game-over panel with its Back to Start button is never on screen
PanelNeverShown == ~(isGameStarted /\ gameOver)

\* C6: the session stays in GameOver until the user acknowledges it:
\* isGameStarted goes back to false only by the Back to Start click.
C6_LeavesGameOverByClick ==
  [][(isGameStarted /\ ~isGameStarted') => BackToStart]_vars

Count(q, op) == Cardinality({i \in 1..Len(q) : q[i].op = op})

\* C7: game over is raised only when no target is left: while gameOver is
\* set or about to be set, every box of the latest session is collected,
\* its target is null and its flag cleared, and once set the remaining
\* count is 0.
C7_GameOverMeansAllCollected ==
  (gameOver \/ Count(updateQueue, "gameOverTrue") > 0) =>
    /\ current # 0
    /\ OverC(current)
    /\ gameOver => totalBoxes = 0

\* C7 witness: a render has committed game over
C7_Witness ==
  /\ act.name = "Render"
  /\ root = "mounted"
  /\ gameOver
  /\ totalBoxes = 0
  /\ Len(collectedBoxes) = NumBoxes

\* this step calls setGameOver(true)
RaisesGameOver ==
  Count(updateQueue', "gameOverTrue")
    > (IF act'.name = "Tick" THEN Count(updateQueue, "gameOverTrue") ELSE 0)

\* C8: game over is raised once per session, by the tick that collects the
\* last box: a step that raises it is a tick of a running closure with one
\* box left, which it collects and which clears the flag; and a cleared
\* flag is never set again.
C8_GameOverOnce ==
  [][/\ RaisesGameOver =>
          /\ act'.name = "Tick"
          /\ RunningC(act'.cl)
          /\ Cardinality(Uncollected(closures[act'.cl].boxesData)) = 1
          /\ Count(updateQueue', "gameOverTrue")
               = Count(updateQueue, "gameOverTrue") + 1
          /\ OverIn(closures', act'.cl)
     /\ \A c \in DOMAIN closures :
          (Continues(c) /\ ~closures[c].isRunning) => ~closures'[c].isRunning]_vars

\* C8 witness: the tick that collected the last box has raised game over
\* and the callback it registered before is still to come
C8_Witness ==
  /\ act.name = "Tick"
  /\ OverC(act.cl)
  /\ HasCallback(act.cl)
  /\ Count(updateQueue, "gameOverTrue") = 1

Collected(boxes) == {i \in 1..Len(boxes) : boxes[i].collected}

\* the counters as Start Game sets them
CountersReset ==
  /\ totalBoxes = NumBoxes
  /\ collectedBoxes = <<>>
  /\ ~gameOver
  /\ isGameStarted

\* C9 as stated: a start after a game over leaves the counters reset, the
\* drone at the origin and every box of the new session uncollected.
C9_FullyReset ==
  [][(gameOver /\ act'.name = "StartGame") =>
       /\ CountersReset'
       /\ closures'[current'].drone = Origin
       /\ Collected(closures'[current'].boxesData) = {}]_vars

\* C9 amended: a start after a game over resets the counters and creates a
\* world on which the first tick has already run: the session is running,
\* the drone is at most one step from the origin, at most one box is
\* collected, namely one this step reached, and the only updates queued are
\* those of that collection; a tick of an older closure queues nothing and
\* every queued append is one of the latest closure.
C9_ResetThenFirstTick ==
  /\ [][(gameOver /\ act'.name = "StartGame") =>
          /\ CountersReset'
          /\ closures'[current'].isRunning
          /\ distanceToSquared(closures'[current'].drone, Origin)
               <= droneSpeed * droneSpeed
          /\ Cardinality(Collected(closures'[current'].boxesData)) <= 1
          /\ \A i \in Collected(closures'[current'].boxesData) :
               Reached(closures'[current'].drone,
                       closures'[current'].boxesData[i].pos)
          /\ Len(updateQueue')
               = 2 * Cardinality(Collected(closures'[current'].boxesData))]_vars
  /\ [][(act'.name = "Tick" /\ act'.cl # current) =>
          updateQueue' = updateQueue]_vars
  /\ [](\A i \in 1..Len(updateQueue) :
          updateQueue[i].op = "append" => updateQueue[i].cl = current)

\* C9 witness: a session was started after a game over while the last
\* callback of the old session was still registered, and its first tick
\* collected a box
C9_Witness ==
  /\ act.name = "StartGame"
  /\ CountersReset
  /\ Collected(closures[current].boxesData) # {}
  /\ \E c \in DOMAIN closures : c # current /\ OverC(c) /\ HasCallback(c)

\* C10: a tick that finds the flag of its closure cleared changes no
\* closure, queues no update, leaves the committed state alone and
\* registers no callback; no step at all changes a closure whose flag is
\* cleared.
C10_StoppedTickIsInert ==
  [][/\ (/\ act'.name = "Tick"
          /\ rafQueue # <<>>
          /\ ~closures[Head(rafQueue)].isRunning) =>
            /\ rafQueue' = Tail(rafQueue)
            /\ updateQueue' = updateQueue
            /\ UiState' = UiState
            /\ DOMAIN closures \ {Head(rafQueue)} \subseteq DOMAIN closures'
            /\ \A d \in DOMAIN closures' :
                 d \in DOMAIN closures /\ closures'[d] = closures[d]
     /\ \A c \in DOMAIN closures :
          (Continues(c) /\ ~closures[c].isRunning) => closures'[c] = closures[c]]_vars

\* C10 witness: after the view was torn down in the middle of a session
\* the registered callback has run and nothing is registered any more
C10_Witness ==
  /\ act.name = "Tick"
  /\ root = "unmounted"
  /\ rafQueue = <<>>
  /\ current # 0
  /\ ~closures[current].isRunning
  /\ closures[current].currentTarget # Null
  /\ Uncollected(closures[current].boxesData) # {}

\* the step is a tick of closure c
TickOf(c) == act'.name = "Tick" /\ act'.cl = c /\ rafQueue # <<>>

\* v is a positive multiple of w
Along(v, w) ==
  /\ v[1] * w[1] + v[2] * w[2] + v[3] * w[3] > 0
  /\ v[1] * w[2] = v[2] * w[1]
  /\ v[1] * w[3] = v[3] * w[1]
  /\ v[2] * w[3] = v[3] * w[2]

\* the layout the boxes of a closure in state cl were created with
LayoutOf(cl) == [i \in DOMAIN cl.boxesData |-> cl.boxesData[i].pos[1]]

\* the displacement a tick of a closure in state cl must make to go from
\* position to moved
StepAsStated(cl, moved) ==
  IF cl.isRunning /\ HasTarget(cl)
       /\ cl.drone # cl.boxesData[cl.currentTarget].pos
  THEN /\ lengthSq(subVectors(moved, cl.drone)) = droneSpeed * droneSpeed
       /\ Along(subVectors(moved, cl.drone),
                subVectors(cl.boxesData[cl.currentTarget].pos, cl.drone))
  ELSE moved = cl.drone

\* C11: a tick displaces the drone by exactly the speed constant along the
\* direction to the target when there is a target and the drone is not at
\* it, and by zero otherwise (this includes the tick Start Game ends with);
\* no other step moves a drone.
C11_StepLength ==
  [][/\ \A c \in DOMAIN closures : Continues(c) =>
          IF TickOf(c) THEN StepAsStated(closures[c], closures'[c].drone)
          ELSE closures'[c].drone = closures[c].drone
     /\ act'.name = "StartGame" =>
          \E created \in {NewClosure(LayoutOf(closures'[current']))} :
            StepAsStated(created, closures'[current'].drone)]_vars

\* C11 witness: the drone is two steps from the origin, on the far side,
\* after a tick that collected nothing
C11_Witness ==
  /\ act.name = "Tick"
  /\ act.cl \in DOMAIN closures
  /\ closures[act.cl].isRunning
  /\ closures[act.cl].drone = <<-2 * droneSpeed, 0, 0>>
  /\ Collected(closures[act.cl].boxesData) = {}

\* the least n with n * b >= a
CeilDiv(a, b) == (a + b - 1) \div b

\* the tick of the scenario: ceil((10 - 0.635) / 0.05)
ScenarioTicks ==
  CeilDiv(length(closures[1].boxesData[NumBoxes].pos) - boxSize \div 2, droneSpeed)

\* C12: with the drone at the origin and one remaining box 10 m away on an
\* axis, the box is not collected before tick ceil((10 - 0.635) / 0.05) =
\* 188 and is collected by that tick.
C12_CollectedAtTick ==
  /\ ScenarioTicks = 188
  /\ closures[1].boxesData[NumBoxes].collected <=> call.ticks >= ScenarioTicks

\* C12 witness: the tick of the scenario has run and collected the box
C12_Witness ==
  /\ call.ticks = ScenarioTicks
  /\ closures[1].boxesData[NumBoxes].collected
  /\ closures[1].boxesData[NumBoxes].pos = <<0, 0, -2000>>

\* the step ran animate on closure c: a callback, or the call Start Game
\* ends with
RanAnimate(c) ==
  /\ act'.cl = c
  /\ \/ act'.name = "StartGame"
     \/ act'.name = "Tick" /\ RunningC(c)

C13_Witness ==
  /\ act.name = "Tick"
  /\ OverC(act.cl)
  /\ Len(closures[act.cl].boxesData) = NumBoxes
  /\ root = "mounted"

\* the other case: a session started on an empty collection is running,
\* without a target, after a callback
EmptyKeepsRunning ==
  /\ act.name = "Tick"
  /\ RunningC(act.cl)
  /\ closures[act.cl].boxesData = <<>>
  /\ closures[act.cl].currentTarget = Null
  /\ HasCallback(act.cl)

\* closure c is running with its drone exactly on its target
OnTarget(c) ==
  /\ RunningC(c)
  /\ HasTarget(closures[c])
  /\ closures[c].drone = closures[c].boxesData[closures[c].currentTarget].pos

\* C14: a tick that starts with the drone exactly on the target raises no
\* fault, leaves the drone where it is, and collects the target.
C14_ZeroDirection ==
  [][\A c \in DOMAIN closures : (Continues(c) /\ TickOf(c) /\ OnTarget(c)) =>
       /\ root' = root
       /\ HasCallback(c)'
       /\ closures'[c].drone = closures[c].drone
       /\ closures'[c].boxesData[closures[c].currentTarget].collected
       /\ closures'[c].currentTarget # closures[c].currentTarget]_vars

\* C14 witness: the first tick stopped on the second box (one step from
\* the origin), and the tick after it has collected that box from there
C14_Witness ==
  /\ act.name = "Tick"
  /\ act.cl \in DOMAIN closures
  /\ closures[act.cl].drone = <<droneSpeed, 0, 0>>
  /\ \E i \in Collected(closures[act.cl].boxesData) :
       closures[act.cl].boxesData[i].pos = closures[act.cl].drone
  /\ Len(updateQueue) >= 2

\* C15: every record appended to the collected list is the box whose flag
\* that collection set, whenever React runs the updater: no render fails
\* on the list, every entry is a collected box of the session, and once
\* the queued updates are applied the list holds each collected box once.
C15_AppendsTheCollectedBox ==
  /\ root # "crashed"
  /\ \A i \in 1..Len(collectedBoxes) :
       /\ collectedBoxes[i].cl = current
       /\ collectedBoxes[i].id \in Collected(closures[current].boxesData)
  /\ (current # 0 /\ updateQueue = <<>> /\ act.name = "Render") =>
       /\ Len(collectedBoxes) = Cardinality(Collected(closures[current].boxesData))
       /\ \A id \in Collected(closures[current].boxesData) :
            \E i \in 1..Len(collectedBoxes) : collectedBoxes[i] = Ref(current, id)

\* the render after the last collection of a session has thrown on the
\* null entry the deferred updater produced
LastAppendIsNull ==
  /\ root = "crashed"
  /\ OverC(current)

\* a box that is not collected is on the collected list
AppendedNextTarget ==
  \E i \in 1..Len(collectedBoxes) :
    /\ collectedBoxes[i].cl = current
    /\ collectedBoxes[i].id \in Uncollected(closures[current].boxesData)

\* distance < boxSize / 2, on the squares
WithinHalfEdge(position, target) ==
  4 * distanceToSquared(position, target) < boxSize * boxSize

\* box i of a closure in state cl is what a tick of it collects when the
\* drone is at moved afterwards
CollectedAsStated(cl, i, moved) ==
  /\ cl.isRunning
  /\ cl.currentTarget = i
  /\ ~cl.boxesData[i].collected
  /\ WithinHalfEdge(moved, cl.boxesData[i].pos)

\* C16: a box is collected by a step exactly when the step is a tick, the
\* box is the current target of that tick and the drone is closer to it
\* than half the box edge after the move; this includes the tick Start
\* Game ends with.
C16_OnlyTheTarget ==
  [][/\ \A c \in DOMAIN closures : Continues(c) =>
          \A i \in 1..NumBoxes :
            Collects(c, i) <=>
              (TickOf(c) /\ CollectedAsStated(closures[c], i, closures'[c].drone))
     /\ act'.name = "StartGame" =>
          \E created \in {NewClosure(LayoutOf(closures'[current']))} :
            \A i \in 1..NumBoxes :
              closures'[current'].boxesData[i].collected <=>
                CollectedAsStated(created, i, closures'[current'].drone)]_vars

\* C16 witness: after a tick that collected its target another box, not
\* collected, is within half a box edge of the drone
C16_Witness ==
  /\ act.name = "Tick"
  /\ act.cl \in DOMAIN closures
  /\ Collected(closures[act.cl].boxesData) # {}
  /\ \E i \in Uncollected(closures[act.cl].boxesData) :
       WithinHalfEdge(closures[act.cl].drone, closures[act.cl].boxesData[i].pos)
  /\ Len(updateQueue) = 2

\* the step collects a box of closure c
CollectsSome(c) == \E i \in 1..NumBoxes : Collects(c, i)

\* C17: the target of a closure changes only in a tick of it that collects
\* a box; a tick without a collection changes nothing but the drone
\* position: not the target, no box, no counter, no queued update; and a
\* tick with a collection, which selects a target, changes no box position,
\* no flag but the one of the collected box and leaves the drone where the
\* move put it.
C17_TargetChangesOnCollection ==
  [][\A c \in DOMAIN closures : Continues(c) =>
       /\ closures'[c].currentTarget # closures[c].currentTarget =>
            (TickOf(c) /\ CollectsSome(c))
       /\ (TickOf(c) /\ ~CollectsSome(c)) =>
            /\ closures'[c].currentTarget = closures[c].currentTarget
            /\ closures'[c].boxesData = closures[c].boxesData
            /\ closures'[c].isRunning = closures[c].isRunning
            /\ UiState' = UiState
            /\ updateQueue' = updateQueue
       /\ \A i \in 1..NumBoxes :
            /\ closures'[c].boxesData[i].pos = closures[c].boxesData[i].pos
            /\ (TickOf(c) /\ Collects(c, i)) =>
                 /\ \A j \in 1..NumBoxes \ {i} :
                      closures'[c].boxesData[j] = closures[c].boxesData[j]
                 /\ closures'[c].drone
                      = Moved(closures[c].drone, closures[c].boxesData[i].pos)]_vars

\* C17 witness: three ticks into a session nothing is collected and the
\* target is the one selected at the start
C17_Witness ==
  /\ act.name = "Tick"
  /\ act.cl \in DOMAIN closures
  /\ updateQueue = <<>>
  /\ collectedBoxes = <<>>
  /\ lengthSq(closures[act.cl].drone) = 9 * droneSpeed * droneSpeed
  /\ Collected(closures[act.cl].boxesData) = {}
  /\ closures[act.cl].currentTarget
       = findClosestBox(Origin, closures[act.cl].boxesData)

\* C18: a tick collects at most one box and queues at most one append and
\* one decrement, the tick Start Game ends with included, also when the
\* target it selects is within half a box edge of the drone already.
C18_OnePerTick ==
  [][/\ \A c \in DOMAIN closures : (Continues(c) /\ TickOf(c)) =>
          /\ Cardinality(Collected(closures'[c].boxesData))
               <= Cardinality(Collected(closures[c].boxesData)) + 1
          /\ Count(updateQueue', "append") <= Count(updateQueue, "append") + 1
          /\ Count(updateQueue', "decrement")
               <= Count(updateQueue, "decrement") + 1
     /\ act'.name = "StartGame" =>
          /\ Cardinality(Collected(closures'[current'].boxesData)) <= 1
          /\ Count(updateQueue', "append") <= 1
          /\ Count(updateQueue', "decrement") <= 1]_vars

\* C18 witness: a tick has collected one box and the target it selected
\* is within half a box edge of the drone, not collected
C18_Witness ==
  /\ act.name = "Tick"
  /\ RunningC(act.cl)
  /\ Cardinality(Collected(closures[act.cl].boxesData)) = 1
  /\ HasTarget(closures[act.cl])
  /\ WithinHalfEdge(closures[act.cl].drone,
        closures[act.cl].boxesData[closures[act.cl].currentTarget].pos)
  /\ Count(updateQueue, "append") = 1
  /\ Count(updateQueue, "decrement") = 1

\* the state the next render computes from the queued updates
Rendered == ApplyAll(UiState, updateQueue, closures)

\* C19: with the updates queued by the ticks applied, the remaining count
\* is the number of boxes of the session not collected and the collected
\* list is as long as the number of boxes collected.
C19_UiAgreesWithWorld ==
  (root = "mounted" /\ current # 0) =>
    /\ Rendered.totalBoxes
         = Cardinality(Uncollected(closures[current].boxesData))
    /\ Len(Rendered.collectedBoxes)
         = Cardinality(Collected(closures[current].boxesData))

\* C19 witness: the updates of two collections have been rendered and
\* nothing is queued
C19_Witness ==
  /\ act.name = "Render"
  /\ root = "mounted"
  /\ updateQueue = <<>>
  /\ Len(collectedBoxes) = 2
  /\ Cardinality(Collected(closures[current].boxesData)) = 2
  /\ closures[current].drone # <<droneSpeed, 0, 0>>

\* every coordinate of v is at most bound in absolute value
WithinCube(v, bound) == \A k \in 1..3 : Abs(v[k]) <= bound

\* C20 as stated: the drone stays inside the region boxes are placed in,
\* every coordinate at most roomSize / 2 - boxSize / 2 in absolute value.
C20_InsideSpawnRegion ==
  \A c \in DOMAIN closures : WithinCube(closures[c].drone, maxPos)

\* C20 amended: the drone stays within less than one step of the region
\* boxes are placed in: every coordinate is below
\* roomSize / 2 - boxSize / 2 + droneSpeed in absolute value.
C20_WithinOneStepOfRegion ==
  \A c \in DOMAIN closures : WithinCube(closures[c].drone, maxPos + droneSpeed - 1)

\* C20 witness: the drone has stepped over a target less than one step
\* away and is outside the region, the target collected
C20_Witness ==
  /\ act.name = "Tick"
  /\ ~WithinCube(closures[1].drone, maxPos)
  /\ \E i \in Collected(closures[1].boxesData) :
       distanceToSquared(closures[1].drone, closures[1].boxesData[i].pos)
         < droneSpeed * droneSpeed

====
